---- MODULE Spec2Model ----
(***************************************************************************)
(* A model of the PartnerBoost reporting scripts:                          *)
(*   daily_amazon_report.py      fetch_amazon_report, get_brand_name_from_db,*)
(*                               aggregate_by_brand (datafeed mode)        *)
(*   daily_transaction_report.py fetch_transactions, aggregate_by_brand    *)
(*                               (transaction mode)                        *)
(*   sync_products.py            upsert_product, fetch_fba_products_page,  *)
(*                               sync_products                             *)
(* JSON values are tagged records, so that the integer 0, the string "0",  *)
(* null and an absent key stay different values, as they are in Python.    *)
(***************************************************************************)
EXTENDS Integers, Sequences, FiniteSets, TLC

\* ------------------------------------------------------------------ bounds
MaxPages == 3       \* pages a server serves before the model stops asking
MaxPageLen == 3     \* items on one report page
MaxTxRows == 3      \* rows aggregated in transaction mode
MaxDfRows == 2      \* rows aggregated in datafeed mode
MantBits == 3       \* significand bits of the modelled binary floating point

\* ------------------------------------------------------------- JSON values
Absent == [t |-> "absent"]
Null == [t |-> "null"]
Num(n) == [t |-> "num", n |-> n]
Str(s) == [t |-> "str", s |-> s]
Bool(b) == [t |-> "bool", b |-> b]

\* Python truthiness of a value read with dict.get (an absent key reads None).
Truthy(v) ==
    CASE v.t = "absent" -> FALSE
      [] v.t = "null" -> FALSE
      [] v.t = "num" -> v.n # 0
      [] v.t = "str" -> v.s # ""
      [] v.t = "bool" -> v.b
      [] v.t = "list" -> TRUE

\* ---------------------------------------------------------- the brand mapping
\* The defaultdict's factory: {"orders": 0, "sales": 0.0, "commission": 0.0}
ZeroTotals == [orders |-> 0, sales |-> 0, commission |-> 0]

\* result[brand], creating the default entry when the key is missing.
Entry(res, brand) == IF brand \in DOMAIN res THEN res[brand] ELSE ZeroTotals

\* result[brand] = totals
WithEntry(res, brand, totals) ==
    [b \in DOMAIN res \cup {brand} |-> IF b = brand THEN totals ELSE res[b]]

EmptyResult == [b \in {} |-> ZeroTotals]

\* ------------------------------------------------------------------- state
VARIABLES
    prog,         \* the entry point that runs: "amazon" | "transactions" | "fba"
                  \*   | "sync" | "aggregate_tx" | "aggregate_df"
    token,        \* os.getenv(TOKEN_ENV_NAME): Null when unset, else Str
    pc,           \* the position of the running function
    page,         \* the loop's page index (the page argument of the fba fetch)
    all_rows,     \* all_rows / all_items: the items accumulated by a fetcher
    ret,          \* {} until the function returns, then {the returned value}
    err,          \* {} until the function raises, then {the error raised}
    requests,     \* page indices of the HTTP requests issued, in order
    responses,    \* the responses received by a report fetcher, in order
    page_size,    \* sync_products' page_size argument
    db,           \* the committed rows of table products (products.db)
    conn,         \* the rows as the open connection sees them
    in_txn,       \* TRUE between BEGIN and COMMIT
    product_list, \* sync_products: the page being upserted
    has_more,     \* sync_products: data_block.get("has_more") of that page
    idx,          \* sync_products: position of the next product of the page
    total_count,  \* sync_products: records handed to upsert_product
    rows,         \* aggregate_by_brand: the rows folded so far, in order
    result        \* aggregate_by_brand: the brand -> totals mapping

fetchVars == <<token, pc, page, all_rows, ret, err, requests, responses>>
syncVars == <<page_size, db, conn, in_txn, product_list, has_more, idx, total_count>>
aggVars == <<rows, result>>
vars == <<prog, fetchVars, syncVars, aggVars>>

\* ----------------------------------------------------------- the remote API
Tokens == {Null, Str(""), Str("tok")}
SuccessCodes == {Num(0), Str("0")}
ErrorCodes == {Num(7), Absent}
Codes == SuccessCodes \cup ErrorCodes
HasMoreFlags == {Bool(TRUE), Bool(FALSE), Absent}
TotalPages == {Absent} \cup {Num(n) : n \in 0..MaxPages}

\* status.code with the status.msg that accompanies it.
Statuses ==
    {[code |-> c, msg |-> Str("ok")] : c \in SuccessCodes} \cup
    {[code |-> c, msg |-> m] : c \in ErrorCodes, m \in {Str("denied"), Str("busy")}}

\* The items of page p: n distinct records, named by page and position.
PageList(p, n) == [i \in 1..n |-> <<p, i>>]

\* resp.raise_for_status() raised: an HTTP-level failure.
HttpError ==
    [http |-> "error", code |-> Absent, msg |-> Absent, list |-> <<>>,
     has_more |-> Absent, total_page |-> Absent]

\* The JSON envelopes the report endpoint may answer a request for page p.
AmazonResponses(p) ==
    {HttpError} \cup
    {[http |-> "ok", code |-> st.code, msg |-> st.msg, list |-> PageList(p, n),
      has_more |-> h, total_page |-> Absent] :
        st \in Statuses, n \in 0..MaxPageLen, h \in HasMoreFlags}

\* The JSON envelopes the transaction endpoint may answer a request for page p.
TransactionResponses(p) ==
    {HttpError} \cup
    {[http |-> "ok", code |-> st.code, msg |-> st.msg, list |-> PageList(p, n),
      has_more |-> Absent, total_page |-> tp] :
        st \in Statuses, n \in 0..MaxPageLen, tp \in TotalPages}

\* ------------------------------------------------------------ shared pieces
\* A credential check that tests only for an unset variable.
TokenIsNone(tok) == tok.t = "null"

\* `if not token`
NoToken(tok) == ~Truthy(tok)

ConfigError == [kind |-> "config", code |-> Absent, msg |-> Absent]
TransportError == [kind |-> "transport", code |-> Absent, msg |-> Absent]
ApiError(resp) == [kind |-> "api", code |-> resp.code, msg |-> resp.msg]

\* A status check that fails only when the envelope carries no code.
CodeIsAbsent(code) == code.t = "absent"

\* `status.get("code") != 0` of both report fetchers.
CodeIsNotZero(code) == ~(code.t = "num" /\ code.n = 0)

\* An accumulation that puts the new page in front.
ExtendInFront(acc, lst) == lst \o acc

\* list.extend
Extend(acc, lst) == acc \o lst

\* A stop test that an absent flag does not satisfy.
AmazonStopsOnFalseOnly(resp) == resp.has_more = Bool(FALSE)

\* `if not has_more: break`, has_more = data_block.get("has_more", False)
AmazonStops(resp) == ~Truthy(resp.has_more)

\* int(data_block.get("total_page", 1))
TotalPageOf(resp) == IF resp.total_page.t = "absent" THEN 1 ELSE resp.total_page.n

\* A last-page test that is off by one.
PastLastPage(p, resp) == p > TotalPageOf(resp)

\* `if page >= total_page: break`
ReachedLastPage(p, resp) == p >= TotalPageOf(resp)

\* --------------------------------------------------------- fetch_amazon_report
\* Lines 28-33: the credential check and the loop's initial state.
AmazonStart ==
    /\ prog = "amazon" /\ pc = "start"
    /\ IF NoToken(token)
       THEN /\ pc' = "raised" /\ err' = {ConfigError}
            /\ UNCHANGED <<page, all_rows>>
       ELSE /\ pc' = "loop" /\ page' = 1 /\ all_rows' = <<>>
            /\ UNCHANGED err
    /\ UNCHANGED <<prog, token, ret, requests, responses, syncVars, aggVars>>

\* Lines 36-65: the body of one iteration of the loop, answered by resp.
AmazonIteration(resp) ==
    /\ requests' = Append(requests, page)
    /\ responses' = Append(responses, resp)
    /\ IF resp.http = "error"
       THEN /\ pc' = "raised" /\ err' = {TransportError}
            /\ UNCHANGED <<page, all_rows, ret>>
       ELSE IF CodeIsNotZero(resp.code)
       THEN /\ pc' = "raised" /\ err' = {ApiError(resp)}
            /\ UNCHANGED <<page, all_rows, ret>>
       ELSE /\ all_rows' = Extend(all_rows, resp.list)
            /\ IF AmazonStops(resp)
               THEN /\ pc' = "returned" /\ ret' = {all_rows'}
                    /\ UNCHANGED page
               ELSE /\ page' = page + 1
                    /\ UNCHANGED <<pc, ret>>
            /\ UNCHANGED err
    /\ UNCHANGED <<prog, token, syncVars, aggVars>>

\* Line 35: `while True`, one request per iteration.
AmazonPage ==
    /\ prog = "amazon" /\ pc = "loop" /\ page <= MaxPages
    /\ \E resp \in AmazonResponses(page) : AmazonIteration(resp)

\* ---------------------------------------------------------- fetch_transactions
\* Lines 22-27.
TransactionsStart ==
    /\ prog = "transactions" /\ pc = "start"
    /\ IF NoToken(token)
       THEN /\ pc' = "raised" /\ err' = {ConfigError}
            /\ UNCHANGED <<page, all_rows>>
       ELSE /\ pc' = "loop" /\ page' = 1 /\ all_rows' = <<>>
            /\ UNCHANGED err
    /\ UNCHANGED <<prog, token, ret, requests, responses, syncVars, aggVars>>

\* Lines 30-70: the body of one iteration of the loop, answered by resp.
TransactionsIteration(resp) ==
    /\ requests' = Append(requests, page)
    /\ responses' = Append(responses, resp)
    /\ IF resp.http = "error"
       THEN /\ pc' = "raised" /\ err' = {TransportError}
            /\ UNCHANGED <<page, all_rows, ret>>
       ELSE IF CodeIsNotZero(resp.code)
       THEN /\ pc' = "raised" /\ err' = {ApiError(resp)}
            /\ UNCHANGED <<page, all_rows, ret>>
       ELSE IF resp.list = <<>>
       THEN /\ pc' = "returned" /\ ret' = {all_rows}
            /\ UNCHANGED <<page, all_rows, err>>
       ELSE /\ all_rows' = Extend(all_rows, resp.list)
            /\ IF ReachedLastPage(page, resp)
               THEN /\ pc' = "returned" /\ ret' = {all_rows'}
                    /\ UNCHANGED page
               ELSE /\ page' = page + 1
                    /\ UNCHANGED <<pc, ret>>
            /\ UNCHANGED err
    /\ UNCHANGED <<prog, token, syncVars, aggVars>>

\* Line 29: `while True`, one request per iteration.
TransactionsPage ==
    /\ prog = "transactions" /\ pc = "loop" /\ page <= MaxPages
    /\ \E resp \in TransactionResponses(page) : TransactionsIteration(resp)

\* ------------------------------------------------------------ the Lookup Store
\* dict.get(key): an absent key reads None.
Get(v) == IF v.t = "absent" THEN Null ELSE v

\* Python's `a or b` over two dict.get reads.
PyOr(a, b) == IF Truthy(a) THEN a ELSE Get(b)

\* A non-empty JSON array: a value sqlite3 cannot bind as a statement
\* parameter and float() cannot convert.
List == [t |-> "list"]

\* Field values of the product records the listing endpoint serves.
ProductVariants ==
    { [brand_id |-> Str("b1"), brand_name |-> Str("X"), brand |-> Absent,
       title |-> Str("T1"), name |-> Absent, country_code |-> Str("US")],
      [brand_id |-> Str("b2"), brand_name |-> Absent, brand |-> Str("Y"),
       title |-> Absent, name |-> Str("N2"), country_code |-> Str("DE")],
      [brand_id |-> Absent, brand_name |-> Str(""), brand |-> Absent,
       title |-> Null, name |-> Absent, country_code |-> Absent],
      [brand_id |-> Str("b1"), brand_name |-> Null, brand |-> Str(""),
       title |-> Str(""), name |-> Str(""), country_code |-> Str("US")],
      [brand_id |-> List, brand_name |-> Str("X"), brand |-> Absent,
       title |-> Str("T1"), name |-> Absent, country_code |-> Str("US")] }

WithAsin(a, v) ==
    [asin |-> a, brand_id |-> v.brand_id, brand_name |-> v.brand_name,
     brand |-> v.brand, title |-> v.title, name |-> v.name,
     country_code |-> v.country_code]

FirstVariant ==
    [brand_id |-> Str("b1"), brand_name |-> Str("X"), brand |-> Absent,
     title |-> Str("T1"), name |-> Absent, country_code |-> Str("US")]

SecondVariant ==
    [brand_id |-> Str("b2"), brand_name |-> Absent, brand |-> Str("Y"),
     title |-> Absent, name |-> Str("N2"), country_code |-> Str("DE")]

\* The product records served: with no product code, with code A1 in every
\* variant, with code A2 in one variant.
Products ==
    {WithAsin(Absent, FirstVariant), WithAsin(Str(""), SecondVariant)} \cup
    {WithAsin(Str("A1"), v) : v \in ProductVariants} \cup
    {WithAsin(Str("A2"), SecondVariant)}

\* Lines 43-45: `if not asin: return`
NoAsin(product) == ~Truthy(product.asin)

\* Lines 47-50 and 62: the parameters bound to the INSERT.
RowOf(product) ==
    [asin |-> product.asin.s,
     brand_id |-> Get(product.brand_id),
     brand_name |-> PyOr(product.brand_name, product.brand),
     title |-> PyOr(product.title, product.name),
     country_code |-> Get(product.country_code)]

\* sqlite3 binds None, str and numbers; any other parameter makes execute raise.
Bindable(v) == v.t \in {"null", "str", "num"}

UpsertRaises(product) ==
    /\ ~NoAsin(product)
    /\ \E f \in {"brand_id", "brand_name", "title", "country_code"} :
          ~Bindable(RowOf(product)[f])

\* INSERT OR IGNORE: a conflicting row keeps its old columns.
InsertOrIgnore(store, row) ==
    IF \E r \in store : r.asin = row.asin THEN store ELSE store \cup {row}

\* Lines 52-63: INSERT ... ON CONFLICT(asin) DO UPDATE SET the four columns.
InsertOrUpdate(store, row) == {r \in store : r.asin # row.asin} \cup {row}

\* upsert_product, on the rows the connection sees.
upsert_product(store, product) ==
    IF NoAsin(product) THEN store ELSE InsertOrUpdate(store, RowOf(product))

\* ----------------------------------------------------- fetch_fba_products_page
PageSizes == {2}

ProductLists(n) == UNION {[1..k -> Products] : k \in 0..n}

\* The JSON envelopes the product-listing endpoint may answer.
FbaResponses(n) ==
    {HttpError} \cup
    {[http |-> "ok", code |-> st.code, msg |-> st.msg, list |-> l,
      has_more |-> h, total_page |-> Absent] :
        st \in Statuses, l \in ProductLists(n), h \in HasMoreFlags}

\* Lines 91-94: `code not in (0, "0")`
FbaCodeIsError(code) == ~(code = Num(0) \/ code = Str("0"))

\* Lines 71-96: the request and the check of its answer resp.
FbaRequest(resp) ==
    /\ requests' = Append(requests, page)
    /\ responses' = Append(responses, resp)
    /\ IF resp.http = "error"
       THEN /\ pc' = "raised" /\ err' = {TransportError}
            /\ UNCHANGED ret
       ELSE IF FbaCodeIsError(resp.code)
       THEN /\ pc' = "raised" /\ err' = {ApiError(resp)}
            /\ UNCHANGED ret
       ELSE /\ pc' = "returned" /\ ret' = {resp}
            /\ UNCHANGED err

\* fetch_fba_products_page called on its own (fetch_fba_sample.py).
FbaFetch ==
    /\ prog = "fba" /\ pc = "start"
    /\ IF NoToken(token)
       THEN /\ pc' = "raised" /\ err' = {ConfigError}
            /\ UNCHANGED <<ret, requests, responses>>
       ELSE \E resp \in FbaResponses(page_size) : FbaRequest(resp)
    /\ UNCHANGED <<prog, token, page, all_rows, syncVars, aggVars>>

\* ------------------------------------------------- the fetchers' specification
FetchInit ==
    /\ prog \in {"amazon", "transactions", "fba"}
    /\ token \in Tokens
    /\ pc = "start"
    /\ page \in (IF prog = "fba" THEN 1..MaxPages ELSE {0})
    /\ all_rows = <<>>
    /\ ret = {}
    /\ err = {}
    /\ requests = <<>>
    /\ responses = <<>>
    /\ page_size \in PageSizes
    /\ db = {} /\ conn = {} /\ in_txn = FALSE
    /\ product_list = <<>> /\ has_more = Absent /\ idx = 0 /\ total_count = 0
    /\ rows = <<>> /\ result = EmptyResult

FetchNext ==
    \/ AmazonStart
    \/ AmazonPage
    \/ TransactionsStart
    \/ TransactionsPage
    \/ FbaFetch

FetchSpec == FetchInit /\ [][FetchNext]_vars

\* --------------------------------------------------------------- sync_products
DbError == [kind |-> "sqlite", code |-> Absent, msg |-> Absent]

\* A stop test that takes an absent flag for the end as well.
SyncStopsOnFalsy(flag, lst, size) == ~Truthy(flag) \/ Len(lst) < size

\* Line 134: `if has_more is False or len(product_list) < page_size`
SyncStops(flag, lst, size) == flag = Bool(FALSE) \/ Len(lst) < size

\* Lines 100-107: init_db (CREATE TABLE IF NOT EXISTS keeps the rows there
\* are), the connection, the counters.
SyncStart ==
    /\ prog = "sync" /\ pc = "start"
    /\ pc' = "fetch" /\ page' = 1 /\ total_count' = 0
    /\ conn' = db /\ in_txn' = FALSE
    /\ UNCHANGED <<prog, token, all_rows, ret, err, requests, responses,
                   page_size, db, product_list, has_more, idx, aggVars>>

\* Lines 111-124 after a request answered by resp: fetch_fba_products_page's
\* checks, then the page's list, the empty-page stop, or BEGIN.
SyncReceive(resp) ==
    /\ requests' = Append(requests, page)
    /\ IF resp.http = "error"
       THEN /\ pc' = "raised" /\ err' = {TransportError}
            /\ UNCHANGED <<product_list, has_more, idx, in_txn>>
       ELSE IF FbaCodeIsError(resp.code)
       THEN /\ pc' = "raised" /\ err' = {ApiError(resp)}
            /\ UNCHANGED <<product_list, has_more, idx, in_txn>>
       ELSE /\ product_list' = resp.list
            /\ has_more' = resp.has_more
            /\ UNCHANGED err
            /\ IF resp.list = <<>>
               THEN pc' = "done" /\ UNCHANGED <<idx, in_txn>>
               ELSE pc' = "upsert" /\ idx' = 1 /\ in_txn' = TRUE

\* Lines 110-124: the fetch of one page.
SyncFetch ==
    /\ prog = "sync" /\ pc = "fetch" /\ page <= MaxPages
    /\ IF NoToken(token)
       THEN /\ pc' = "raised" /\ err' = {ConfigError}
            /\ UNCHANGED <<requests, product_list, has_more, idx, in_txn>>
       ELSE \E resp \in FbaResponses(page_size) : SyncReceive(resp)
    /\ UNCHANGED <<prog, token, page, all_rows, ret, responses,
                   page_size, db, conn, total_count, aggVars>>

\* A connection in autocommit mode with no BEGIN: every statement is
\* committed as it is executed.
CommittedAtOnce(committed, view, open) == view

\* Lines 102 and 124-128: isolation_level None leaves the transactions to the
\* program; between BEGIN and COMMIT a statement changes what the connection
\* sees and leaves the committed rows alone.
Committed(committed, view, open) == IF open THEN committed ELSE view

\* Lines 125-127: one turn of `for p in product_list`. An exception leaves
\* sync_products with the transaction open; the connection goes away without
\* a COMMIT and SQLite rolls the open transaction back.
SyncUpsert ==
    /\ prog = "sync" /\ pc = "upsert" /\ idx <= Len(product_list)
    /\ IF UpsertRaises(product_list[idx])
       THEN /\ pc' = "raised" /\ err' = {DbError}
            /\ conn' = db /\ db' = db /\ in_txn' = FALSE
            /\ UNCHANGED <<idx, total_count>>
       ELSE /\ conn' = upsert_product(conn, product_list[idx])
            /\ db' = Committed(db, conn', in_txn)
            /\ idx' = idx + 1 /\ total_count' = total_count + 1
            /\ UNCHANGED <<pc, err, in_txn>>
    /\ UNCHANGED <<prog, token, page, all_rows, ret, requests, responses,
                   page_size, product_list, has_more, aggVars>>

\* Lines 128-138: COMMIT, then the stop test or the next page.
SyncCommit ==
    /\ prog = "sync" /\ pc = "upsert" /\ idx > Len(product_list)
    /\ db' = conn /\ in_txn' = FALSE
    /\ IF SyncStops(has_more, product_list, page_size)
       THEN pc' = "done" /\ UNCHANGED page
       ELSE pc' = "fetch" /\ page' = page + 1
    /\ UNCHANGED <<prog, token, all_rows, ret, err, requests, responses,
                   page_size, conn, product_list, has_more, idx, total_count,
                   aggVars>>

\* Lines 157-158: the script is run again, on the products.db the earlier
\* run left.
SyncRerun ==
    /\ prog = "sync" /\ pc \in {"done", "raised"}
    /\ pc' = "start" /\ page' = 0 /\ err' = {} /\ requests' = <<>>
    /\ conn' = db /\ in_txn' = FALSE
    /\ product_list' = <<>> /\ has_more' = Absent /\ idx' = 0
    /\ total_count' = 0
    /\ UNCHANGED <<prog, token, all_rows, ret, responses, page_size, db,
                   aggVars>>

SyncInit ==
    /\ prog = "sync"
    /\ token \in Tokens
    /\ pc = "start"
    /\ page = 0
    /\ all_rows = <<>>
    /\ ret = {}
    /\ err = {}
    /\ requests = <<>>
    /\ responses = <<>>
    /\ page_size \in PageSizes
    /\ db = {} /\ conn = {} /\ in_txn = FALSE
    /\ product_list = <<>> /\ has_more = Absent /\ idx = 0 /\ total_count = 0
    /\ rows = <<>> /\ result = EmptyResult

SyncNext ==
    \/ SyncStart
    \/ SyncFetch
    \/ SyncUpsert
    \/ SyncCommit
    \/ SyncRerun

SyncSpec == SyncInit /\ [][SyncNext]_vars

\* ------------------------------------------------------------ Python floats
\* A float is modelled as an integer count of a fixed binary unit, and an
\* addition rounds its exact result to MantBits significant bits, ties to
\* even, as IEEE 754 binary64 does with 53 bits (no overflow, no NaN).
RECURSIVE Pow2(_)
Pow2(n) == IF n = 0 THEN 1 ELSE 2 * Pow2(n - 1)

\* x >= 0 rounded to the nearest multiple of unit, ties to the even multiple.
RoundToUnit(x, unit) ==
    LET q == x \div unit
        r == x % unit
    IN  IF 2 * r > unit \/ (2 * r = unit /\ q % 2 = 1)
        THEN (q + 1) * unit
        ELSE q * unit

RECURSIVE RoundFrom(_, _)
\* x >= 0 rounded to MantBits significant bits, trying units unit, 2*unit, ...
RoundFrom(x, unit) ==
    IF x < Pow2(MantBits) * unit
    THEN RoundToUnit(x, unit)
    ELSE RoundFrom(x, 2 * unit)

FloatRound(x) == IF x < 0 THEN 0 - RoundFrom(0 - x, 1) ELSE RoundFrom(x, 1)

\* float.__add__
FloatAdd(a, b) == FloatRound(a + b)

\* float(str): the decimal literals the rows carry; any other text raises
\* ValueError.
FloatOfStr(s) ==
    CASE s = "2" -> [ok |-> TRUE, f |-> 2]
      [] s = "8" -> [ok |-> TRUE, f |-> 8]
      [] OTHER -> [ok |-> FALSE, kind |-> "ValueError"]

\* float(v): a number converts, a string is parsed, None and containers raise
\* TypeError.
PyFloat(v) ==
    CASE v.t = "num" -> [ok |-> TRUE, f |-> v.n]
      [] v.t = "str" -> FloatOfStr(v.s)
      [] OTHER -> [ok |-> FALSE, kind |-> "TypeError"]

\* `row.get(key, 0) or 0`
OrZero(v) == IF Truthy(v) THEN v ELSE Num(0)

\* ------------------------------- daily_transaction_report.aggregate_by_brand
\* Lines 83-86 and 88-91: float(... or 0), 0.0 on TypeError or ValueError.
ParseOrZero(v) == IF PyFloat(OrZero(v)).ok THEN PyFloat(OrZero(v)).f ELSE 0

\* Line 80: t.get("merchant_name") or "Unknown"
TxBrand(t) == IF Truthy(t.merchant_name) THEN t.merchant_name.s ELSE "Unknown"

\* A fold step that overwrites the sums instead of adding to them.
TxStepOverwriting(res, t) ==
    WithEntry(res, TxBrand(t),
        [orders |-> Entry(res, TxBrand(t)).orders + 1,
         sales |-> ParseOrZero(t.sale_amount),
         commission |-> ParseOrZero(t.sale_comm)])

\* Lines 79-96: the loop body for transaction t.
TxStep(res, t) ==
    WithEntry(res, TxBrand(t),
        [orders |-> Entry(res, TxBrand(t)).orders + 1,
         sales |-> FloatAdd(Entry(res, TxBrand(t)).sales, ParseOrZero(t.sale_amount)),
         commission |-> FloatAdd(Entry(res, TxBrand(t)).commission,
                                 ParseOrZero(t.sale_comm))])

\* ------------------------------------ daily_amazon_report.aggregate_by_brand
\* A lookup that returns whatever text is stored, empty or not.
get_brand_name_unchecked(store, asin) ==
    IF \E r \in store : r.asin = asin /\ r.brand_name.t = "str"
    THEN (CHOOSE r \in store : r.asin = asin).brand_name.s
    ELSE "Unknown"

\* Lines 18-24: SELECT brand_name ... WHERE asin = ?; `if row and row[0]`.
get_brand_name_from_db(store, asin) ==
    IF \E r \in store : r.asin = asin /\ Truthy(r.brand_name)
    THEN (CHOOSE r \in store : r.asin = asin /\ Truthy(r.brand_name)).brand_name.s
    ELSE "Unknown"

\* Lines 75-79.
DfBrand(r, store) ==
    IF Truthy(r.asin) THEN get_brand_name_from_db(store, r.asin.s) ELSE "Unknown"

\* Line 85: `quantity > 0`; comparing a str with an int raises TypeError.
QuantityComparable(q) == q.t = "num"

\* Lines 74-89: the loop body for row r; raised when a line of it raises.
DfStep(res, r, store) ==
    LET brand == DfBrand(r, store)
        quantity == OrZero(r.quantity)
        sales == PyFloat(OrZero(r.sales))
        commission == PyFloat(OrZero(r.estCommission))
        old == Entry(res, brand)
    IN  IF ~QuantityComparable(quantity)
        THEN [raised |-> TRUE, kind |-> "TypeError", result |-> res]
        ELSE IF ~sales.ok
        THEN [raised |-> TRUE, kind |-> sales.kind, result |-> res]
        ELSE IF ~commission.ok
        THEN [raised |-> TRUE, kind |-> commission.kind, result |-> res]
        ELSE [raised |-> FALSE, kind |-> "",
              result |-> WithEntry(res, brand,
                  [orders |-> IF quantity.n > 0 THEN old.orders + 1 ELSE old.orders,
                   sales |-> FloatAdd(old.sales, sales.f),
                   commission |-> FloatAdd(old.commission, commission.f)])]

\* ----------------------------------------------- aggregate_by_brand, as a whole
RECURSIVE FoldTx(_, _)
\* daily_transaction_report.py lines 79-96: `for t in transactions`.
FoldTx(res, seq) ==
    IF seq = <<>> THEN res ELSE FoldTx(TxStep(res, Head(seq)), Tail(seq))

RECURSIVE FoldDf(_, _, _)
\* daily_amazon_report.py lines 74-89: `for r in rows`, ended by a raise.
FoldDf(res, seq, store) ==
    IF seq = <<>>
    THEN [raised |-> FALSE, result |-> res]
    ELSE IF DfStep(res, Head(seq), store).raised
    THEN [raised |-> TRUE, result |-> res]
    ELSE FoldDf(DfStep(res, Head(seq), store).result, Tail(seq), store)

\* aggregate_by_brand of either script on a fresh mapping: what it returns,
\* or that it raised.
aggregate_by_brand(mode, seq, store) ==
    IF mode = "aggregate_tx"
    THEN [raised |-> FALSE, result |-> FoldTx(EmptyResult, seq)]
    ELSE FoldDf(EmptyResult, seq, store)

\* ---------------------------------------------------------- the report rows
\* Transactions: every kind of brand field with plain amounts, and one brand
\* with every kind of amount field.
TxRows ==
    {[merchant_name |-> m, sale_amount |-> Num(1), sale_comm |-> Num(1)] :
        m \in {Absent, Str(""), Str("X"), Str("Y")}} \cup
    {[merchant_name |-> Str("X"), sale_amount |-> a, sale_comm |-> Num(1)] :
        a \in {Num(8), Absent, Null, Str("N/A"), Str("2")}} \cup
    {[merchant_name |-> Str("X"), sale_amount |-> Num(1), sale_comm |-> c] :
        c \in {Absent, Str("N/A"), Str("8"), List}}

\* Datafeed rows: every kind of product code with plain numbers, and one code
\* with every kind of quantity, sales and commission field.
DfRows ==
    {[asin |-> a, quantity |-> Num(2), sales |-> Num(1), estCommission |-> Num(1)] :
        a \in {Absent, Str(""), Str("A1"), Str("A2")}} \cup
    {[asin |-> Str("A1"), quantity |-> q, sales |-> Num(8), estCommission |-> Num(1)] :
        q \in {Num(0), Absent, Null, Str("3")}} \cup
    {[asin |-> Str("A1"), quantity |-> Num(2), sales |-> v, estCommission |-> Num(1)] :
        v \in {Absent, Null, Str("N/A"), Str("2")}} \cup
    {[asin |-> Str("A1"), quantity |-> Num(2), sales |-> Num(1), estCommission |-> v] :
        v \in {Absent, Str("N/A")}}

\* The rows upsert_product can write, and the tables made of them.
StoredRows == {RowOf(p) : p \in {q \in Products : ~NoAsin(q) /\ ~UpsertRaises(q)}}

Stores == {st \in SUBSET StoredRows : \A r1, r2 \in st : r1.asin = r2.asin => r1 = r2}

\* ------------------------------------------------- aggregate_by_brand, stepwise
\* daily_transaction_report.py lines 79-96: the loop takes the next row.
AggTxRow ==
    /\ prog = "aggregate_tx" /\ pc = "loop" /\ Len(rows) < MaxTxRows
    /\ \E t \in TxRows :
          /\ rows' = Append(rows, t)
          /\ result' = TxStep(result, t)
    /\ UNCHANGED <<prog, fetchVars, syncVars>>

\* daily_amazon_report.py lines 74-89: the loop takes the next row.
AggDfRow ==
    /\ prog = "aggregate_df" /\ pc = "loop" /\ Len(rows) < MaxDfRows
    /\ \E r \in DfRows :
          /\ rows' = Append(rows, r)
          /\ IF DfStep(result, r, conn).raised
             THEN /\ pc' = "raised"
                  /\ err' = {[kind |-> DfStep(result, r, conn).kind,
                              code |-> Absent, msg |-> Absent]}
                  /\ UNCHANGED result
             ELSE /\ result' = DfStep(result, r, conn).result
                  /\ UNCHANGED <<pc, err>>
    /\ UNCHANGED <<prog, token, page, all_rows, ret, requests, responses, syncVars>>

\* `return result` (and conn.close() in datafeed mode): the rows are used up.
AggReturn ==
    /\ prog \in {"aggregate_tx", "aggregate_df"} /\ pc = "loop"
    /\ pc' = "returned" /\ ret' = {result}
    /\ UNCHANGED <<prog, token, page, all_rows, err, requests, responses,
                   syncVars, aggVars>>

AggInit ==
    /\ prog \in {"aggregate_tx", "aggregate_df"}
    /\ token \in {Str("tok")}
    /\ pc = "loop"
    /\ page = 0
    /\ all_rows = <<>>
    /\ ret = {}
    /\ err = {}
    /\ requests = <<>>
    /\ responses = <<>>
    /\ page_size \in PageSizes
    /\ db \in (IF prog = "aggregate_df" THEN Stores ELSE {{}})
    /\ conn = db /\ in_txn = FALSE
    /\ product_list = <<>> /\ has_more = Absent /\ idx = 0 /\ total_count = 0
    /\ rows = <<>> /\ result = EmptyResult

AggNext ==
    \/ AggTxRow
    \/ AggDfRow
    \/ AggReturn

AggSpec == AggInit /\ [][AggNext]_vars

\* ---------------------------------------------------- claims on the fetchers
ReportFetcher == prog \in {"amazon", "transactions"}

\* The item lists of the pages received so far.
PageLists == [k \in 1..Len(responses) |-> responses[k].list]

RECURSIVE SumLen(_, _)
\* The number of items on the first k pages of lists.
SumLen(lists, k) == IF k = 0 THEN 0 ELSE SumLen(lists, k - 1) + Len(lists[k])

\* seq is the pages of lists laid end to end: item j of page k sits at
\* position (items on pages 1..k-1) + j, and there is nothing else.
IsConcatenation(seq, lists) ==
    /\ Len(seq) = SumLen(lists, Len(lists))
    /\ \A k \in 1..Len(lists) : \A j \in 1..Len(lists[k]) :
          seq[SumLen(lists, k - 1) + j] = lists[k][j]

\* C1: the list a report fetcher returns (and the list it holds between two
\* requests) is the concatenation, in page order, of the item lists of every
\* page fetched so far, item order inside a page kept; its length is the sum
\* of the per-page item counts.
C1_Concatenation ==
    ReportFetcher =>
        /\ pc = "loop" => IsConcatenation(all_rows, PageLists)
        /\ pc = "returned" =>
              /\ ret = {all_rows}
              /\ \A r \in ret : IsConcatenation(r, PageLists)

C1_Witness ==
    /\ prog = "transactions" /\ pc = "returned"
    /\ Len(responses) = 3
    /\ \A k \in 1..3 : Len(responses[k].list) >= 2

\* A response that the has_more protocol continues after.
HasMoreContinues(resp) ==
    /\ resp.http = "ok" /\ resp.code = Num(0)
    /\ resp.has_more = Bool(TRUE)

\* A response that ends the has_more protocol normally: flag false or absent.
HasMoreEnds(resp) ==
    /\ resp.http = "ok" /\ resp.code = Num(0)
    /\ resp.has_more \in {Bool(FALSE), Absent}

\* The example of the claim: flags [true, true, false], item counts [3, 2, 1].
C2_Example ==
    /\ prog = "amazon" /\ Len(responses) = 3
    /\ \A k \in 1..3 : responses[k].http = "ok" /\ responses[k].code = Num(0)
    /\ <<responses[1].has_more, responses[2].has_more, responses[3].has_more>>
          = <<Bool(TRUE), Bool(TRUE), Bool(FALSE)>>
    /\ <<Len(responses[1].list), Len(responses[2].list), Len(responses[3].list)>>
          = <<3, 2, 1>>

\* C2: fetch_amazon_report requests pages 1, 2, 3, ... one at a time and stops
\* right after the first page whose has_more flag is false or absent: k
\* requests for a stop at page k, none after it. Flags [true, true, false]
\* with item counts [3, 2, 1] give exactly 3 requests and 6 items.
C2_HasMoreProtocol ==
    prog = "amazon" =>
        /\ requests = [k \in 1..Len(requests) |-> k]
        /\ Len(responses) = Len(requests)
        /\ \A k \in 1..Len(responses) - 1 : HasMoreContinues(responses[k])
        /\ pc = "loop" =>
              /\ page = Len(requests) + 1
              /\ \A k \in 1..Len(responses) : HasMoreContinues(responses[k])
        /\ pc = "returned" <=>
              (responses # <<>> /\ HasMoreEnds(responses[Len(responses)]))
        /\ C2_Example =>
              /\ pc = "returned" /\ requests = <<1, 2, 3>>
              /\ \A r \in ret : Len(r) = 6

C2_Witness == C2_Example /\ pc = "returned"

\* total_page as the claim reads it: an absent count counts as 1.
ClaimedTotalPage(resp) ==
    IF resp.total_page = Absent THEN 1 ELSE resp.total_page.n

\* Page p of the total_page protocol ends the fetch normally.
TotalPageEnds(p, resp) ==
    /\ resp.http = "ok" /\ resp.code = Num(0)
    /\ (resp.list = <<>> \/ p >= ClaimedTotalPage(resp))

TotalPageContinues(p, resp) ==
    /\ resp.http = "ok" /\ resp.code = Num(0)
    /\ resp.list # <<>> /\ p < ClaimedTotalPage(resp)

\* The example of the claim: total_page = 2 and two non-empty pages.
C3_Example ==
    /\ prog = "transactions" /\ Len(responses) >= 2
    /\ \A k \in 1..2 :
          /\ responses[k].http = "ok" /\ responses[k].code = Num(0)
          /\ responses[k].list # <<>> /\ responses[k].total_page = Num(2)

\* C3: fetch_transactions requests pages 1, 2, 3, ... and stops after the
\* request for page p exactly when page p is empty or p has reached the total
\* page count of that response (absent: 1). With total_page = 2 and two
\* non-empty pages it makes 2 requests and returns page 2's items too; an
\* empty earlier page ends the fetch at that page.
C3_TotalPageProtocol ==
    prog = "transactions" =>
        /\ requests = [k \in 1..Len(requests) |-> k]
        /\ Len(responses) = Len(requests)
        /\ \A k \in 1..Len(responses) - 1 : TotalPageContinues(k, responses[k])
        /\ pc = "loop" =>
              /\ page = Len(requests) + 1
              /\ \A k \in 1..Len(responses) : TotalPageContinues(k, responses[k])
        /\ pc = "returned" <=>
              (responses # <<>> /\ TotalPageEnds(Len(responses), responses[Len(responses)]))
        /\ C3_Example =>
              /\ pc = "returned" /\ requests = <<1, 2>>
              /\ \A r \in ret : r = responses[1].list \o responses[2].list

C3_Witness == C3_Example /\ pc = "returned"

\* A status code that is present and is not a success code.
NonSuccessCode(resp) ==
    /\ resp.http = "ok" /\ resp.code # Absent
    /\ resp.code # Num(0) /\ resp.code # Str("0")

\* C4: in both report fetchers a response whose status code is not a success
\* code (status.code = 7) aborts the fetch at that page: the error carries
\* the code and the message, no further page is requested, the response's
\* data is ignored and nothing is returned, earlier pages' items included.
C4_ApiErrorAborts ==
    ReportFetcher =>
        \A k \in 1..Len(responses) :
            NonSuccessCode(responses[k]) =>
                /\ k = Len(responses) /\ Len(requests) = k
                /\ pc = "raised"
                /\ err = {[kind |-> "api", code |-> responses[k].code,
                           msg |-> responses[k].msg]}
                /\ ret = {}
                /\ IsConcatenation(all_rows, SubSeq(PageLists, 1, k - 1))

C4_Witness ==
    /\ prog = "amazon" /\ pc = "raised" /\ Len(responses) = 2
    /\ responses[1].list # <<>>
    /\ responses[2].code = Num(7) /\ responses[2].list # <<>>
    /\ responses[2].has_more = Bool(TRUE)

\* C5, as claimed: in every fetcher a response whose status code is the
\* integer 0 or the string "0" is a success, so no API error is ever raised
\* for it.
C5_ZeroCodesSucceed ==
    \A k \in 1..Len(responses) :
        (responses[k].http = "ok" /\ responses[k].code \in {Num(0), Str("0")})
            => ~(pc = "raised" /\ k = Len(responses))

\* C6: without a credential (unset or empty) every fetch entry point fails
\* with the configuration error before any HTTP request: no request is made.
C6_NoTokenNoRequest ==
    (token = Null \/ token = Str("")) =>
        /\ requests = <<>> /\ responses = <<>>
        /\ pc \in {"start", "raised"}
        /\ pc = "raised" => err = {ConfigError}
        /\ ret = {}

C6_Witness == prog = "fba" /\ token = Str("") /\ pc = "raised"

\* ------------------------------------------------- claims on the Lookup Store
\* At most one row per product code.
OnePerCode(store) == \A r1, r2 \in store : r1.asin = r2.asin => r1 = r2

CodesOf(store) == {r.asin : r \in store}

\* The record carries no product code.
LacksCode(product) == product.asin \in {Absent, Null, Str("")}

\* The value a record gives for a column read from one key.
Given(v) == IF v = Absent THEN Null ELSE v

\* The value a record gives for a column read from a key and its alternative.
GivenEither(v, w) == IF v \in {Absent, Null, Str("")} THEN Given(w) ELSE v

\* A call of upsert_product that returned: the loop moved to the next record.
UpsertReturned == prog = "sync" /\ pc = "upsert" /\ idx' = idx + 1

\* What the call for record p made of the rows before, as the rows after.
UpsertEffect(p, before, after) ==
    IF LacksCode(p)
    THEN after = before
    ELSE /\ Cardinality({r \in after : r.asin = p.asin.s}) = 1
         /\ \A r \in after : r.asin = p.asin.s =>
               /\ r.brand_id = Given(p.brand_id)
               /\ r.brand_name = GivenEither(p.brand_name, p.brand)
               /\ r.title = GivenEither(p.title, p.name)
               /\ r.country_code = Given(p.country_code)
         /\ {r \in after : r.asin # p.asin.s} = {r \in before : r.asin # p.asin.s}

\* C9: the store holds at most one row per product code; every upsert_product
\* call leaves, for its record's code, exactly one row carrying that record's
\* brand identifier, brand name, title and country code, and leaves every
\* other row as it was (so a row always shows the most recent upsert of its
\* code); a record without a product code changes nothing; no call removes a
\* row.
C9_Upsert ==
    /\ [](OnePerCode(conn) /\ OnePerCode(db))
    /\ [][UpsertReturned =>
            /\ UpsertEffect(product_list[idx], conn, conn')
            /\ CodesOf(conn) \subseteq CodesOf(conn')]_vars

\* The same code upserted twice in one page with different brand names: one
\* row, with the second brand name.
C9_Witness ==
    /\ prog = "sync" /\ pc = "upsert" /\ idx = 3
    /\ product_list[1].asin = Str("A1") /\ product_list[2].asin = Str("A1")
    /\ product_list[1].brand_name = Str("X") /\ product_list[2].brand = Str("Y")
    /\ Cardinality({r \in conn : r.asin = "A1"}) = 1
    /\ \A r \in conn : r.asin = "A1" => r.brand_name = Str("Y")

\* ---------------------------------------------------- claims on sync_products
\* The step that ends a page: every record of product_list went through
\* upsert_product and COMMIT is next.
PageCompletes == prog = "sync" /\ pc = "upsert" /\ idx > Len(product_list)

\* The places of a page whose record carries a product code.
CodedPlaces(lst) == {i \in 1..Len(lst) : ~LacksCode(lst[i])}

\* The last record a page holds for each of its product codes.
LastOfCode(lst) ==
    {i \in CodedPlaces(lst) :
        \A j \in CodedPlaces(lst) : j > i => lst[j].asin # lst[i].asin}

\* The store has one row for the code of record p, with the columns p gives.
HoldsRecord(p, store) ==
    /\ Cardinality({r \in store : r.asin = p.asin.s}) = 1
    /\ \A r \in store : r.asin = p.asin.s =>
          /\ r.brand_id = Given(p.brand_id)
          /\ r.brand_name = GivenEither(p.brand_name, p.brand)
          /\ r.title = GivenEither(p.title, p.name)
          /\ r.country_code = Given(p.country_code)

\* after is before with every record of the page in it: each code of the page
\* has its one row, with the columns of the page's last record for the code,
\* and the rows of the other codes are the rows of before.
WholePage(lst, before, after) ==
    /\ \A i \in LastOfCode(lst) : HoldsRecord(lst[i], after)
    /\ CodesOf(after) = CodesOf(before) \cup {lst[i].asin.s : i \in CodedPlaces(lst)}
    /\ \A r \in before :
          (\A i \in CodedPlaces(lst) : lst[i].asin.s # r.asin) => r \in after

\* C11: the committed table changes only where a page completes, and there it
\* takes the whole page on top of what was committed before; every other step
\* (an upsert inside the page, a failed upsert, a fetch and its failures, the
\* end of the sync, the next run) leaves the committed table as it was, so no
\* state holds a part of a page and no failure undoes a committed page. Once
\* the sync has ended the connection sees the committed table and no more.
C11_PageAtomic ==
    /\ [][prog = "sync" =>
            IF PageCompletes
            THEN WholePage(product_list, db, db')
            ELSE db' = db]_vars
    /\ [](prog = "sync" /\ pc \in {"done", "raised"} => conn = db /\ ~in_txn)

\* Page 2 failed at its second record after its first was upserted: page 1 is
\* committed and nothing of page 2 is.
C11_Witness ==
    /\ prog = "sync" /\ pc = "raised" /\ err = {DbError}
    /\ page = 2 /\ idx = 2
    /\ ~LacksCode(product_list[1])
    /\ product_list[1].asin.s \notin CodesOf(db)
    /\ db # {}

\* When the sync is to end after a page, as stated: on an empty page, on a
\* false flag, and on a short page only if the response carries no flag.
ClaimedSyncStop(flag, lst, size) ==
    \/ lst = <<>>
    \/ flag = Bool(FALSE)
    \/ flag = Absent /\ Len(lst) < size

\* C12: the pages are requested as 1, 2, 3, ... in order; the sync has ended
\* normally only after a page that is empty, or whose has_more is false, or
\* that carries no has_more and is shorter than page_size; and it goes on to
\* the next page only after a page that is none of these.
C12_HasMoreWithFallback ==
    prog = "sync" =>
        /\ \A i \in 1..Len(requests) : requests[i] = i
        /\ pc = "done" => ClaimedSyncStop(has_more, product_list, page_size)
        /\ pc = "fetch" /\ page > 1 =>
              ~ClaimedSyncStop(has_more, product_list, page_size)

\* --------------------------------------------------- claims on the aggregation
Aggregating == prog \in {"aggregate_tx", "aggregate_df"}

\* The brand a row counts for, and its two amounts as floats (0 for a field
\* that is missing, null or not a number).
RowBrand(row) == IF prog = "aggregate_tx" THEN TxBrand(row) ELSE DfBrand(row, db)

AmountOr0(v) ==
    CASE v.t = "num" -> v.n
      [] v.t = "str" /\ FloatOfStr(v.s).ok -> FloatOfStr(v.s).f
      [] OTHER -> 0

RowSales(row) ==
    IF prog = "aggregate_tx" THEN AmountOr0(row.sale_amount) ELSE AmountOr0(row.sales)

RowCommission(row) ==
    IF prog = "aggregate_tx" THEN AmountOr0(row.sale_comm)
    ELSE AmountOr0(row.estCommission)

\* The rows of seq that count for brand b, in order.
RowsOf(seq, b) == SelectSeq(seq, LAMBDA row : RowBrand(row) = b)

RECURSIVE FloatSumFrom(_, _)
\* acc + seq[1] + seq[2] + ... added left to right in floating point.
FloatSumFrom(acc, seq) ==
    IF seq = <<>> THEN acc ELSE FloatSumFrom(FloatAdd(acc, Head(seq)), Tail(seq))

RECURSIVE ExactSum(_)
ExactSum(seq) == IF seq = <<>> THEN 0 ELSE Head(seq) + ExactSum(Tail(seq))

SalesOf(seq) == [i \in 1..Len(seq) |-> RowSales(seq[i])]
CommissionsOf(seq) == [i \in 1..Len(seq) |-> RowCommission(seq[i])]

\* C7, as claimed: in both aggregation modes a row whose sales, commission or
\* quantity field is missing, null or a non-numeric string never makes the
\* aggregation raise; the field counts as 0.0 for that row and every other
\* row counts as it would alone.
C7_CoercionNeverRaises ==
    Aggregating =>
        /\ pc # "raised"
        /\ \A b \in DOMAIN result :
              /\ result[b].sales = FloatSumFrom(0, SalesOf(RowsOf(rows, b)))
              /\ result[b].commission = FloatSumFrom(0, CommissionsOf(RowsOf(rows, b)))

\* The orderings of n rows.
Orderings(n) == {f \in [1..n -> 1..n] : \A i, j \in 1..n : f[i] = f[j] => i = j}

Reordered(seq, f) == [i \in 1..Len(seq) |-> seq[f[i]]]

\* C8, as claimed: every reordering of the rows gives the same brand keys and,
\* per brand, the same order count, sales total and commission total.
C8_ExactlyCommutative ==
    (Aggregating /\ pc \in {"returned", "raised"}) =>
        \A f \in Orderings(Len(rows)) :
            \A out \in {aggregate_by_brand(prog, Reordered(rows, f), db)} :
                /\ out.raised = (pc = "raised")
                /\ pc # "raised" => out.result = result

Abs(x) == IF x < 0 THEN 0 - x ELSE x

\* total is the sum of n amounts up to floating-point rounding: off from the
\* exact sum by at most g/(1-g) times the sum of the magnitudes,
\* g = (n-1) * 2^-MantBits (the error bound of adding n floats one after the
\* other).
UpToRounding(total, n, exact, magnitudes) ==
    LET slack == IF n = 0 THEN 0 ELSE n - 1
    IN  /\ slack < Pow2(MantBits)
        /\ Abs(total - exact) * (Pow2(MantBits) - slack) <= slack * magnitudes

\* Per brand: the number of its rows, and the exact sums of its amounts and of
\* their magnitudes.
ExactTotals ==
    [b \in DOMAIN result |->
        LET sales == SalesOf(RowsOf(rows, b))
            commissions == CommissionsOf(RowsOf(rows, b))
        IN  [n |-> Len(sales),
             sales |-> ExactSum(sales),
             salesAbs |-> ExactSum([i \in 1..Len(sales) |-> Abs(sales[i])]),
             commission |-> ExactSum(commissions),
             commissionAbs |->
                 ExactSum([i \in 1..Len(commissions) |-> Abs(commissions[i])])]]

\* C8, amended: every reordering of the rows gives the same outcome (a result,
\* or a raise), the same brand keys and the same order count per brand; the
\* sales and commission totals of every ordering equal the exact sums of the
\* brand's amounts up to floating-point rounding, so two orderings agree
\* within that tolerance. Each call starts from an empty mapping.
C8_CommutativeUpToRounding ==
    (Aggregating /\ pc \in {"returned", "raised"}) =>
        \A exact \in {ExactTotals} :
            \A f \in Orderings(Len(rows)) :
              \A out \in {aggregate_by_brand(prog, Reordered(rows, f), db)} :
                /\ out.raised = (pc = "raised")
                /\ pc # "raised" =>
                      /\ DOMAIN out.result = DOMAIN result
                      /\ \A b \in DOMAIN result :
                            /\ out.result[b].orders = result[b].orders
                            /\ UpToRounding(out.result[b].sales, exact[b].n,
                                            exact[b].sales, exact[b].salesAbs)
                            /\ UpToRounding(out.result[b].commission, exact[b].n,
                                            exact[b].commission,
                                            exact[b].commissionAbs)

\* Three transactions of one brand whose sales total depends on their order.
C8_Witness ==
    /\ prog = "aggregate_tx" /\ pc = "returned" /\ Len(rows) = 3
    /\ "X" \in DOMAIN result
    /\ \E f \in Orderings(3) :
          aggregate_by_brand(prog, Reordered(rows, f), db).result["X"].sales
              # result["X"].sales

\* The brand the store gives for a row's product code.
StoreBrand(row) ==
    IF row.asin \in {Absent, Null, Str("")} THEN "Unknown"
    ELSE IF ~(\E r \in db : r.asin = row.asin.s) THEN "Unknown"
    ELSE LET r == CHOOSE r \in db : r.asin = row.asin.s
         IN  IF r.brand_name \in {Null, Str("")} THEN "Unknown" ELSE r.brand_name.s

RowsOfStoreBrand(b) == SelectSeq(rows, LAMBDA row : StoreBrand(row) = b)

\* C10: in datafeed mode every row counts for the brand name the store holds
\* for the row's product code, and for "Unknown" exactly when the row has no
\* product code, the store has no row for it, or the stored name is empty or
\* null; the aggregation never changes the store.
C10_BrandFromStore ==
    /\ []((prog = "aggregate_df" /\ pc # "raised") =>
            /\ DOMAIN result = {StoreBrand(rows[i]) : i \in 1..Len(rows)}
            /\ \A b \in DOMAIN result :
                  /\ result[b].sales = FloatSumFrom(0, SalesOf(RowsOfStoreBrand(b)))
                  /\ result[b].commission =
                        FloatSumFrom(0, CommissionsOf(RowsOfStoreBrand(b)))
                  /\ result[b].orders =
                        Len(SelectSeq(RowsOfStoreBrand(b),
                                      LAMBDA row : OrZero(row.quantity).n > 0)))
    /\ [][prog = "aggregate_df" => db' = db /\ conn' = conn]_vars

\* One row of a stored brand, one of a code whose stored name is empty or
\* null, both aggregated.
C10_Witness ==
    /\ prog = "aggregate_df" /\ pc = "returned" /\ Len(rows) = 2
    /\ rows[1].asin = Str("A2") /\ rows[2].asin = Str("A1")
    /\ \E r \in db : r.asin = "A2" /\ r.brand_name = Str("Y")
    /\ \E r \in db : r.asin = "A1" /\ r.brand_name \in {Null, Str("")}
    /\ DOMAIN result = {"Y", "Unknown"}

====
